---- MODULE Spec2Model ----
(***************************************************************************)
(* A model of backend/server.py, the request handlers of the collaborative *)
(* task manager, over the four collections of its document store           *)
(* (db.users, db.tasks, db.groups, db.group_tasks).                        *)
(*                                                                         *)
(* A handler is one action, translated from its code with its early        *)
(* returns in order.  resp records the request served last and the status  *)
(* code of its response (0 while the handler is between two writes), with  *)
(* the request body when the request succeeds.  A handler that writes the  *)
(* store in more than one round trip (delete_group, register, google_auth) *)
(* is split at the await between the round trips and keeps its position    *)
(* and local variables in a slot of reqs; in the specifications of         *)
(* concurrent requests (SpecAuth, SpecInvites, SpecOrphans) a handler is   *)
(* split at every await, its reads included.  Identifiers made by          *)
(* uuid.uuid4() are drawn in order from a list of fresh names.             *)
(*                                                                         *)
(* Time is a counter of ticks, read by datetime.utcnow().  The joined_at   *)
(* timestamp of a membership and the description, priority and due_date    *)
(* fields, which no handler reads and which are written as title is, are   *)
(* left out of the documents; so is the status field of a group task.      *)
(***************************************************************************)
EXTENDS Naturals, Sequences, FiniteSets, TLC

VARIABLES users, tasks, groups, group_tasks, uuid, reqs, resp,
          SECRET_KEY, REFRESH_SECRET, issued, now

\* The signing secrets read from the environment at start-up, the tokens the
\* server has handed out, and the time datetime.utcnow() returns.
auth == <<SECRET_KEY, REFRESH_SECRET, issued, now>>

vars == <<users, tasks, groups, group_tasks, uuid, reqs, resp, auth>>

(***************************************************************************)
(* Bounds of the model: the groups, group tasks, personal tasks and users  *)
(* created in a behaviour, and the requests served at the same time.       *)
(***************************************************************************)
MaxGroups == 1
MaxGroupTasks == 1
MaxCascadeTasks == 2
MaxTasks == 2
MaxUsers == 2
MaxInflight == 2
MaxTime == 3
MaxMergeTasks == 1
MaxMergeTime == 1
MaxTokens == 4

\* Python's None, as the value of an optional field.
None == "<None>"
\* A field the JSON body of a request leaves out.
Absent == "<absent>"

UserIds == <<"u1", "u2", "u3", "u4">>
GroupIds == <<"g1", "g2", "g3">>
GroupTaskIds == <<"gt1", "gt2", "gt3", "gt4">>
TaskIds == <<"t1", "t2", "t3", "t4">>

Min(S) == CHOOSE x \in S : \A y \in S : x <= y

\* str.lower() on the e-mail addresses the requests carry.
Lower(e) ==
  CASE e = "A@x" -> "a@x"
    [] e = "B@x" -> "b@x"
    [] OTHER -> e

(***************************************************************************)
(* The users the group and task handlers run with: three registered        *)
(* accounts, as register leaves them.                                      *)
(***************************************************************************)
RegisteredUsers ==
  { [id |-> "u1", email |-> "a@x", name |-> "Ann", password_hash |-> "h", picture |-> None],
    [id |-> "u2", email |-> "b@x", name |-> "Bob", password_hash |-> "h", picture |-> None],
    [id |-> "u3", email |-> "c@x", name |-> "Cyd", password_hash |-> "h", picture |-> None] }

\* get_current_user: the caller is a stored user.
Callers == {u.id : u \in users}

Idle == [op |-> "idle"]
NoRequest == [i \in 1..MaxInflight |-> Idle]
Quiet == \A i \in DOMAIN reqs : reqs[i] = Idle

(***************************************************************************)
(* Store lookups.                                                          *)
(***************************************************************************)
\* db.users.find_one({"email": e}): the first stored match, if any.
UsersByEmail(e) == {u \in users : u.email = e}
UserOrder(u) == CHOOSE i \in DOMAIN UserIds : UserIds[i] = u.id
FindUserByEmail(e) ==
  CHOOSE u \in UsersByEmail(e) : \A v \in UsersByEmail(e) : UserOrder(u) <= UserOrder(v)

\* db.groups.find_one({"id": gid})
HasGroup(gid) == \E g \in groups : g.id = gid
Group(gid) == CHOOSE g \in groups : g.id = gid

\* next((m for m in group["members"] if m["user_id"] == uid), None)
MemberIdx(members, uid) == {i \in DOMAIN members : members[i].user_id = uid}
IsMember(members, uid) == MemberIdx(members, uid) # {}
Member(members, uid) == members[Min(MemberIdx(members, uid))]
RoleOf(members, uid) == IF IsMember(members, uid) THEN Member(members, uid).role ELSE None

\* db.groups.find_one({"id": gid, "members.user_id": uid})
HasGroupOf(gid, uid) == HasGroup(gid) /\ IsMember(Group(gid).members, uid)

\* {"$pull": {"members": {"user_id": uid}}}
Pull(members, uid) == SelectSeq(members, LAMBDA m : m.user_id # uid)

\* update_one({"id": id}, {"$set": ...}) on a set of documents with an id field
SetDoc(coll, id, new) == {IF d.id = id THEN new ELSE d : d \in coll}

(***************************************************************************)
(* Request inputs.                                                         *)
(***************************************************************************)
GroupIdInputs == {GroupIds[i] : i \in 1..MaxGroups}
GroupTaskIdInputs == {GroupTaskIds[i] : i \in 1..MaxGroupTasks}
GroupNames == {"n1", "n2"}
\* InviteMemberRequest.role is a plain str: the schema accepts any value.
InviteRoles == {"owner", "admin", "member", "viewer", "guest"}
InviteEmails == {"a@x", "A@x", "b@x", "c@x", "z@x"}
Titles == {"x", "y"}
\* GroupTaskCreate.assigned_to / GroupTaskUpdate.assigned_to: Optional[str]
AssignInputs == {None, "", "u1", "u2", "u3"}

(***************************************************************************)
(* Groups.                                                                 *)
(***************************************************************************)
\* create_group: the document inserted for the caller.
NewGroup(gid, name, user) ==
  [id |-> gid, name |-> name, owner_id |-> user.id,
   members |-> << [user_id |-> user.id, user_name |-> user.name,
                   user_email |-> user.email, role |-> "owner"] >>,
   created_at |-> now]

User(uid) == CHOOSE u \in users : u.id = uid

CreateGroup(caller, name) ==
  /\ Quiet
  /\ LET gid == GroupIds[uuid.group + 1] IN
       /\ groups' = groups \cup {NewGroup(gid, name, User(caller))}
       /\ uuid' = [uuid EXCEPT !.group = @ + 1]
       /\ resp' = [op |-> "create_group", caller |-> caller, gid |-> gid, status |-> 200]
  /\ UNCHANGED <<users, tasks, group_tasks, reqs, auth>>

\* Variant: the group looked up by id alone, a non-member refused with 403.
GetGroupStatus_Forbidden(gid, caller) ==
  IF ~HasGroup(gid) THEN 404
  ELSE IF ~IsMember(Group(gid).members, caller) THEN 403
  ELSE 200

\* get_group: one lookup by group id and membership.
GetGroupStatus(gid, caller) == IF ~HasGroupOf(gid, caller) THEN 404 ELSE 200

GetGroup(caller, gid) ==
  /\ Quiet
  /\ resp' = [op |-> "get_group", caller |-> caller, gid |-> gid,
              status |-> GetGroupStatus(gid, caller)]
  /\ UNCHANGED <<users, tasks, groups, group_tasks, uuid, reqs, auth>>

\* member["role"] in ["owner", "admin"], for a caller who has a membership
IsOwnerOrAdmin(members, uid) ==
  IsMember(members, uid) /\ Member(members, uid).role \in {"owner", "admin"}

UpdateGroupStatus(gid, caller) ==
  IF ~HasGroup(gid) THEN 404
  ELSE IF ~IsOwnerOrAdmin(Group(gid).members, caller) THEN 403
  ELSE 200

\* update_group: GroupUpdate.name is None or a new name.
UpdateGroup(caller, gid, name) ==
  /\ Quiet
  /\ LET st == UpdateGroupStatus(gid, caller) IN
       /\ groups' = IF st = 200 /\ name # None
                    THEN SetDoc(groups, gid, [Group(gid) EXCEPT !.name = name])
                    ELSE groups
       /\ resp' = IF st = 200
                  THEN [op |-> "update_group", caller |-> caller, gid |-> gid,
                        name |-> name, status |-> st]
                  ELSE [op |-> "update_group", caller |-> caller, gid |-> gid, status |-> st]
  /\ UNCHANGED <<users, tasks, group_tasks, uuid, reqs, auth>>

DeleteGroupStatus(gid, caller) ==
  IF ~HasGroup(gid) THEN 404
  ELSE IF Group(gid).owner_id # caller THEN 403
  ELSE 200

\* Variant: the filter written on the task's own id, which matches nothing.
DeleteManyGroupTasks_ById(coll, gid) == {t \in coll : t.id # gid}

\* db.group_tasks.delete_many({"group_id": gid})
DeleteManyGroupTasks(coll, gid) == {t \in coll : t.group_id # gid}
\* db.groups.delete_one({"id": gid})
DeleteOneGroup(coll, gid) == {g \in coll : g.id # gid}

\* delete_group up to its first write: the lookup, the two checks, and the
\* delete_many of the group's tasks.  A refused request ends here.
DeleteGroupTasksStep(caller, gid) ==
  /\ Quiet
  /\ LET st == DeleteGroupStatus(gid, caller) IN
       IF st # 200
       THEN /\ resp' = [op |-> "delete_group", caller |-> caller, gid |-> gid, status |-> st]
            /\ UNCHANGED <<group_tasks, reqs>>
       ELSE /\ group_tasks' = DeleteManyGroupTasks(group_tasks, gid)
            /\ reqs' = [reqs EXCEPT ![1] = [op |-> "delete_group", pc |-> "delete_one",
                                            caller |-> caller, gid |-> gid]]
            /\ resp' = [op |-> "delete_group", caller |-> caller, gid |-> gid, status |-> 0]
  /\ UNCHANGED <<users, tasks, groups, uuid, auth>>

\* delete_group from the delete_one of the group document to the response.
DeleteGroupRecordStep(i) ==
  /\ reqs[i].op = "delete_group"
  /\ reqs[i].pc = "delete_one"
  /\ groups' = DeleteOneGroup(groups, reqs[i].gid)
  /\ reqs' = [reqs EXCEPT ![i] = Idle]
  /\ resp' = [op |-> "delete_group", caller |-> reqs[i].caller, gid |-> reqs[i].gid,
              status |-> 200]
  /\ UNCHANGED <<users, tasks, group_tasks, uuid, auth>>

\* invite_member: the membership appended for the invitee.
NewMember(invitee, role) ==
  [user_id |-> invitee.id, user_name |-> invitee.name,
   user_email |-> invitee.email, role |-> role]

InviteStatus(gid, caller, email) ==
  IF ~HasGroup(gid) THEN 404
  ELSE IF ~IsOwnerOrAdmin(Group(gid).members, caller) THEN 403
  ELSE IF UsersByEmail(Lower(email)) = {} THEN 404
  ELSE IF IsMember(Group(gid).members, FindUserByEmail(Lower(email)).id) THEN 400
  ELSE 200

InviteMember(caller, gid, email, role) ==
  /\ Quiet
  /\ LET st == InviteStatus(gid, caller, email) IN
       /\ groups' = IF st = 200
                    THEN SetDoc(groups, gid,
                           [Group(gid) EXCEPT !.members =
                              Append(@, NewMember(FindUserByEmail(Lower(email)), role))])
                    ELSE groups
       /\ resp' = [op |-> "invite_member", caller |-> caller, gid |-> gid, status |-> st]
  /\ UNCHANGED <<users, tasks, group_tasks, uuid, reqs, auth>>

\* Variant: the permission check made before the owner check.
RemoveMemberStatus_PermissionFirst(gid, caller, member_id) ==
  IF ~HasGroup(gid) THEN 404
  ELSE IF ~IsMember(Group(gid).members, caller) THEN 403
  ELSE IF ~IsMember(Group(gid).members, member_id) THEN 404
  ELSE IF member_id # caller /\ Member(Group(gid).members, caller).role \notin {"owner", "admin"}
       THEN 403
  ELSE IF Member(Group(gid).members, member_id).role = "owner" THEN 400
  ELSE 200

\* Variant: no exception for a member who removes themself.
RemoveMemberStatus_NoSelfRemoval(gid, caller, member_id) ==
  IF ~HasGroup(gid) THEN 404
  ELSE IF ~IsMember(Group(gid).members, caller) THEN 403
  ELSE IF ~IsMember(Group(gid).members, member_id) THEN 404
  ELSE IF Member(Group(gid).members, member_id).role = "owner" THEN 400
  ELSE IF Member(Group(gid).members, caller).role \notin {"owner", "admin"} THEN 403
  ELSE 200

RemoveMemberStatus(gid, caller, member_id) ==
  IF ~HasGroup(gid) THEN 404
  ELSE IF ~IsMember(Group(gid).members, caller) THEN 403
  ELSE IF ~IsMember(Group(gid).members, member_id) THEN 404
  ELSE IF Member(Group(gid).members, member_id).role = "owner" THEN 400
  ELSE IF member_id # caller /\ Member(Group(gid).members, caller).role \notin {"owner", "admin"}
       THEN 403
  ELSE 200

RemoveMember(caller, gid, member_id) ==
  /\ Quiet
  /\ LET st == RemoveMemberStatus(gid, caller, member_id) IN
       /\ groups' = IF st = 200
                    THEN SetDoc(groups, gid,
                           [Group(gid) EXCEPT !.members = Pull(@, member_id)])
                    ELSE groups
       /\ resp' = [op |-> "remove_member", caller |-> caller, gid |-> gid,
                   member_id |-> member_id, status |-> st]
  /\ UNCHANGED <<users, tasks, group_tasks, uuid, reqs, auth>>

(***************************************************************************)
(* invite_member among concurrent requests.  The handler awaits the lookup *)
(* of the group, the lookup of the invitee and the $push separately; a     *)
(* request keeps the group document it read in its slot of reqs, and       *)
(* checks the invitee against that document.                               *)
(***************************************************************************)
\* Variant: the invitee looked for by the e-mail address as the request
\* spells it.
AlreadyMember_ByEmail(r, invitee) ==
  \E k \in DOMAIN r.group.members : r.group.members[k].user_email = r.email

\* any(m["user_id"] == invitee["id"] for m in group["members"]), on the
\* group document the request read.
AlreadyMember(r, invitee) == IsMember(r.group.members, invitee.id)

\* invite_member up to the await of the invitee's lookup.
InviteFindGroup(i, caller, gid, email, role) ==
  /\ reqs[i] = Idle
  /\ IF ~HasGroup(gid)
     THEN /\ resp' = [op |-> "invite_member", caller |-> caller, gid |-> gid, status |-> 404]
          /\ UNCHANGED reqs
     ELSE IF ~IsOwnerOrAdmin(Group(gid).members, caller)
     THEN /\ resp' = [op |-> "invite_member", caller |-> caller, gid |-> gid, status |-> 403]
          /\ UNCHANGED reqs
     ELSE /\ reqs' = [reqs EXCEPT ![i] = [op |-> "invite_member", pc |-> "find_user",
                                          caller |-> caller, gid |-> gid, email |-> email,
                                          role |-> role, group |-> Group(gid)]]
          /\ resp' = [op |-> "invite_member", caller |-> caller, gid |-> gid, status |-> 0]
  /\ UNCHANGED <<users, tasks, groups, group_tasks, uuid, auth>>

\* invite_member from the invitee's lookup to the await of update_one.
InviteFindUser(i) ==
  /\ reqs[i].op = "invite_member"
  /\ reqs[i].pc = "find_user"
  /\ LET r == reqs[i] IN
       IF UsersByEmail(Lower(r.email)) = {}
       THEN /\ resp' = [op |-> "invite_member", caller |-> r.caller, gid |-> r.gid,
                        status |-> 404]
            /\ reqs' = [reqs EXCEPT ![i] = Idle]
       ELSE IF AlreadyMember(r, FindUserByEmail(Lower(r.email)))
       THEN /\ resp' = [op |-> "invite_member", caller |-> r.caller, gid |-> r.gid,
                        status |-> 400]
            /\ reqs' = [reqs EXCEPT ![i] = Idle]
       ELSE /\ resp' = [op |-> "invite_member", caller |-> r.caller, gid |-> r.gid,
                        status |-> 0]
            /\ reqs' = [reqs EXCEPT ![i] =
                          [op |-> "invite_member", pc |-> "push", caller |-> r.caller,
                           gid |-> r.gid, group |-> r.group,
                           new_member |-> NewMember(FindUserByEmail(Lower(r.email)), r.role)]]
  /\ UNCHANGED <<users, tasks, groups, group_tasks, uuid, auth>>

\* update_one({"id": group_id}, {"$push": {"members": new_member}})
Push(coll, gid, new_member) ==
  {IF g.id = gid THEN [g EXCEPT !.members = Append(@, new_member)] ELSE g : g \in coll}

\* invite_member from update_one to the response.
InvitePush(i) ==
  /\ reqs[i].op = "invite_member"
  /\ reqs[i].pc = "push"
  /\ groups' = Push(groups, reqs[i].gid, reqs[i].new_member)
  /\ reqs' = [reqs EXCEPT ![i] = Idle]
  /\ resp' = [op |-> "invite_member", caller |-> reqs[i].caller, gid |-> reqs[i].gid,
              status |-> 200]
  /\ UNCHANGED <<users, tasks, group_tasks, uuid, auth>>

(***************************************************************************)
(* Group tasks.                                                            *)
(***************************************************************************)
HasGroupTask(tid, gid) == \E t \in group_tasks : t.id = tid /\ t.group_id = gid
GroupTask(tid) == CHOOSE t \in group_tasks : t.id = tid
GroupTasksOf(gid) == {t \in group_tasks : t.group_id = gid}

\* Python truthiness of an Optional[str]: None and "" are false.
Truthy(v) == v # None /\ v # ""

\* Variant: the name looked up among the stored users, member or not.
AssignedToName_FromUsers(members, assigned_to) ==
  IF Truthy(assigned_to) /\ (\E u \in users : u.id = assigned_to)
  THEN User(assigned_to).name
  ELSE None

\* The assigned_to_name both handlers derive from the membership list read.
AssignedToName(members, assigned_to) ==
  IF Truthy(assigned_to) /\ IsMember(members, assigned_to)
  THEN Member(members, assigned_to).user_name
  ELSE None

GetGroupTasksStatus(gid, caller) == IF ~HasGroupOf(gid, caller) THEN 404 ELSE 200

GetGroupTasks(caller, gid) ==
  /\ Quiet
  /\ LET st == GetGroupTasksStatus(gid, caller) IN
       resp' = [op |-> "get_group_tasks", caller |-> caller, gid |-> gid, status |-> st,
                body |-> IF st = 200 THEN GroupTasksOf(gid) ELSE {}]
  /\ UNCHANGED <<users, tasks, groups, group_tasks, uuid, reqs, auth>>

CreateGroupTaskStatus(gid, caller) ==
  IF ~HasGroupOf(gid, caller) THEN 404
  ELSE IF Member(Group(gid).members, caller).role = "viewer" THEN 403
  ELSE 200

NewGroupTask(tid, gid, caller, title, assigned_to, members) ==
  [id |-> tid, title |-> title, group_id |-> gid, created_by |-> caller,
   assigned_to |-> assigned_to,
   assigned_to_name |-> AssignedToName(members, assigned_to),
   created_at |-> now, updated_at |-> now]

CreateGroupTask(caller, gid, title, assigned_to) ==
  /\ Quiet
  /\ LET st == CreateGroupTaskStatus(gid, caller)
         tid == GroupTaskIds[uuid.group_task + 1]
     IN IF st # 200
        THEN /\ resp' = [op |-> "create_group_task", caller |-> caller, gid |-> gid,
                         status |-> st]
             /\ UNCHANGED <<group_tasks, uuid>>
        ELSE /\ group_tasks' = group_tasks \cup
                  {NewGroupTask(tid, gid, caller, title, assigned_to, Group(gid).members)}
             /\ uuid' = [uuid EXCEPT !.group_task = @ + 1]
             /\ resp' = [op |-> "create_group_task", caller |-> caller, gid |-> gid,
                         assigned_to |-> assigned_to, id |-> tid, status |-> 200]
  /\ UNCHANGED <<users, tasks, groups, reqs, auth>>

\* The fields of the request models TaskUpdate and GroupTaskUpdate.
TaskUpdateFields == {"title", "status"}
GroupTaskUpdateFields == {"title", "assigned_to"}

\* The request model of a PATCH body (GroupUpdate, TaskUpdate, GroupTaskUpdate):
\* every field is Optional with default None, so a field the body leaves out
\* and a field the body sets to null both read None; a field of the body
\* the model does not declare is ignored.
ParseUpdate(fields, body) ==
  [f \in fields |-> IF f \in DOMAIN body /\ body[f] # Absent THEN body[f] ELSE None]

\* Variant: every field of the request model kept, None included.
NonNull_KeepNone(updates) == updates

\* {k: v for k, v in updates.dict().items() if v is not None}
NonNull(updates) == [k \in {f \in DOMAIN updates : updates[f] # None} |-> updates[k]]

\* update_group_task: update_data, with assigned_to_name added when
\* assigned_to is among its keys.
GroupTaskUpdateData(updates, members) ==
  LET update_data == NonNull(updates) IN
    ("updated_at" :> now) @@
      IF "assigned_to" \in DOMAIN update_data
      THEN update_data @@
             ("assigned_to_name" :> AssignedToName(members, update_data["assigned_to"]))
      ELSE update_data

\* update_task: update_data, with updated_at.
TaskUpdateData(updates) == ("updated_at" :> now) @@ NonNull(updates)

\* {"$set": update_data} on one document
Set(doc, update_data) ==
  [k \in DOMAIN doc \cup DOMAIN update_data |->
     IF k \in DOMAIN update_data THEN update_data[k] ELSE doc[k]]

\* Variant: no check of the viewer role.
UpdateGroupTaskStatus_NoViewerCheck(gid, tid, caller) ==
  IF ~HasGroupOf(gid, caller) THEN 404
  ELSE IF ~HasGroupTask(tid, gid) THEN 404
  ELSE 200

UpdateGroupTaskStatus(gid, tid, caller) ==
  IF ~HasGroupOf(gid, caller) THEN 404
  ELSE IF Member(Group(gid).members, caller).role = "viewer" THEN 403
  ELSE IF ~HasGroupTask(tid, gid) THEN 404
  ELSE 200

UpdateGroupTask(caller, gid, tid, body) ==
  /\ Quiet
  /\ LET st == UpdateGroupTaskStatus(gid, tid, caller)
         updates == ParseUpdate(GroupTaskUpdateFields, body)
     IN
       /\ group_tasks' =
            IF st = 200
            THEN SetDoc(group_tasks, tid,
                        Set(GroupTask(tid), GroupTaskUpdateData(updates, Group(gid).members)))
            ELSE group_tasks
       /\ resp' = IF st = 200
                  THEN [op |-> "update_group_task", caller |-> caller, gid |-> gid,
                        id |-> tid, body |-> body, status |-> st]
                  ELSE [op |-> "update_group_task", caller |-> caller, gid |-> gid,
                        id |-> tid, status |-> st]
  /\ UNCHANGED <<users, tasks, groups, uuid, reqs, auth>>

DeleteGroupTaskStatus(gid, tid, caller) ==
  IF ~HasGroupOf(gid, caller) THEN 404
  ELSE IF Member(Group(gid).members, caller).role \notin {"owner", "admin"} THEN 403
  ELSE IF ~HasGroupTask(tid, gid) THEN 404
  ELSE 200

DeleteGroupTask(caller, gid, tid) ==
  /\ Quiet
  /\ LET st == DeleteGroupTaskStatus(gid, tid, caller) IN
       /\ group_tasks' = IF st = 200
                         THEN {t \in group_tasks : ~(t.id = tid /\ t.group_id = gid)}
                         ELSE group_tasks
       /\ resp' = [op |-> "delete_group_task", caller |-> caller, gid |-> gid, id |-> tid,
                   status |-> st]
  /\ UNCHANGED <<users, tasks, groups, uuid, reqs, auth>>

(***************************************************************************)
(* create_group_task, update_group_task and delete_group among concurrent  *)
(* requests.  Each handler is split at its awaits and keeps what it read   *)
(* and built in its slot of reqs.                                          *)
(***************************************************************************)
\* create_group_task up to the await of insert_one: the lookup of the group
\* by id and membership, the viewer check, and the task document.
CreateGroupTaskFind(i, caller, gid, title, assigned_to) ==
  /\ reqs[i] = Idle
  /\ LET st == CreateGroupTaskStatus(gid, caller)
         tid == GroupTaskIds[uuid.group_task + 1]
     IN IF st # 200
        THEN /\ resp' = [op |-> "create_group_task", caller |-> caller, gid |-> gid,
                         status |-> st]
             /\ UNCHANGED <<reqs, uuid>>
        ELSE /\ reqs' = [reqs EXCEPT ![i] =
                           [op |-> "create_group_task", pc |-> "insert", caller |-> caller,
                            gid |-> gid,
                            task |-> NewGroupTask(tid, gid, caller, title, assigned_to,
                                                  Group(gid).members)]]
             /\ uuid' = [uuid EXCEPT !.group_task = @ + 1]
             /\ resp' = [op |-> "create_group_task", caller |-> caller, gid |-> gid,
                         status |-> 0]
  /\ UNCHANGED <<users, tasks, groups, group_tasks, auth>>

\* create_group_task from db.group_tasks.insert_one(task) to the response.
CreateGroupTaskInsert(i) ==
  /\ reqs[i].op = "create_group_task"
  /\ reqs[i].pc = "insert"
  /\ group_tasks' = group_tasks \cup {reqs[i].task}
  /\ reqs' = [reqs EXCEPT ![i] = Idle]
  /\ resp' = [op |-> "create_group_task", caller |-> reqs[i].caller, gid |-> reqs[i].gid,
              assigned_to |-> reqs[i].task.assigned_to, id |-> reqs[i].task.id,
              status |-> 200]
  /\ UNCHANGED <<users, tasks, groups, uuid, auth>>

\* update_group_task up to the await of the task's lookup.
UpdateGroupTaskFindGroup(i, caller, gid, tid, body) ==
  /\ reqs[i] = Idle
  /\ IF ~HasGroupOf(gid, caller)
     THEN /\ resp' = [op |-> "update_group_task", caller |-> caller, gid |-> gid,
                      id |-> tid, status |-> 404]
          /\ UNCHANGED reqs
     ELSE IF Member(Group(gid).members, caller).role = "viewer"
     THEN /\ resp' = [op |-> "update_group_task", caller |-> caller, gid |-> gid,
                      id |-> tid, status |-> 403]
          /\ UNCHANGED reqs
     ELSE /\ reqs' = [reqs EXCEPT ![i] =
                        [op |-> "update_group_task", pc |-> "find_task", caller |-> caller,
                         gid |-> gid, id |-> tid, body |-> body, group |-> Group(gid)]]
          /\ resp' = [op |-> "update_group_task", caller |-> caller, gid |-> gid,
                      id |-> tid, status |-> 0]
  /\ UNCHANGED <<users, tasks, groups, group_tasks, uuid, auth>>

\* update_group_task from the task's lookup to the await of update_one.
UpdateGroupTaskFindTask(i) ==
  /\ reqs[i].op = "update_group_task"
  /\ reqs[i].pc = "find_task"
  /\ LET r == reqs[i] IN
       IF ~HasGroupTask(r.id, r.gid)
       THEN /\ resp' = [op |-> "update_group_task", caller |-> r.caller, gid |-> r.gid,
                        id |-> r.id, status |-> 404]
            /\ reqs' = [reqs EXCEPT ![i] = Idle]
       ELSE /\ resp' = [op |-> "update_group_task", caller |-> r.caller, gid |-> r.gid,
                        id |-> r.id, status |-> 0]
            /\ reqs' = [reqs EXCEPT ![i] =
                          [op |-> "update_group_task", pc |-> "update_one",
                           caller |-> r.caller, gid |-> r.gid, id |-> r.id, body |-> r.body,
                           update_data |->
                             GroupTaskUpdateData(ParseUpdate(GroupTaskUpdateFields, r.body),
                                                 r.group.members)]]
  /\ UNCHANGED <<users, tasks, groups, group_tasks, uuid, auth>>

\* Variant: update_one called with upsert=True.
UpdateOne_Upsert(coll, id, update_data) ==
  IF \E d \in coll : d.id = id
  THEN {IF d.id = id THEN Set(d, update_data) ELSE d : d \in coll}
  ELSE coll \cup {Set([id |-> id], update_data)}

\* db.group_tasks.update_one({"id": task_id}, {"$set": update_data})
UpdateOne(coll, id, update_data) ==
  {IF d.id = id THEN Set(d, update_data) ELSE d : d \in coll}

\* update_group_task from update_one to the await of the second lookup.
UpdateGroupTaskUpdateOne(i) ==
  /\ reqs[i].op = "update_group_task"
  /\ reqs[i].pc = "update_one"
  /\ group_tasks' = UpdateOne(group_tasks, reqs[i].id, reqs[i].update_data)
  /\ reqs' = [reqs EXCEPT ![i] = [op |-> "update_group_task", pc |-> "find_updated",
                                  caller |-> reqs[i].caller, gid |-> reqs[i].gid,
                                  id |-> reqs[i].id, body |-> reqs[i].body]]
  /\ resp' = [op |-> "update_group_task", caller |-> reqs[i].caller, gid |-> reqs[i].gid,
              id |-> reqs[i].id, status |-> 0]
  /\ UNCHANGED <<users, tasks, groups, uuid, auth>>

\* update_group_task from the second lookup, by id alone, to the response:
\* the handler subscripts what find_one returns, and fails when it is None.
UpdateGroupTaskRespond(i) ==
  /\ reqs[i].op = "update_group_task"
  /\ reqs[i].pc = "find_updated"
  /\ reqs' = [reqs EXCEPT ![i] = Idle]
  /\ resp' = IF \E t \in group_tasks : t.id = reqs[i].id
             THEN [op |-> "update_group_task", caller |-> reqs[i].caller,
                   gid |-> reqs[i].gid, id |-> reqs[i].id, body |-> reqs[i].body,
                   status |-> 200]
             ELSE [op |-> "update_group_task", caller |-> reqs[i].caller,
                   gid |-> reqs[i].gid, id |-> reqs[i].id, status |-> 500]
  /\ UNCHANGED <<users, tasks, groups, group_tasks, uuid, auth>>

\* delete_group up to the await of delete_many: the lookup and the two checks.
DeleteGroupFind(i, caller, gid) ==
  /\ reqs[i] = Idle
  /\ LET st == DeleteGroupStatus(gid, caller) IN
       IF st # 200
       THEN /\ resp' = [op |-> "delete_group", caller |-> caller, gid |-> gid, status |-> st]
            /\ UNCHANGED reqs
       ELSE /\ reqs' = [reqs EXCEPT ![i] = [op |-> "delete_group", pc |-> "delete_many",
                                            caller |-> caller, gid |-> gid]]
            /\ resp' = [op |-> "delete_group", caller |-> caller, gid |-> gid, status |-> 0]
  /\ UNCHANGED <<users, tasks, groups, group_tasks, uuid, auth>>

\* delete_group from delete_many to the await of delete_one.
DeleteGroupDeleteMany(i) ==
  /\ reqs[i].op = "delete_group"
  /\ reqs[i].pc = "delete_many"
  /\ group_tasks' = DeleteManyGroupTasks(group_tasks, reqs[i].gid)
  /\ reqs' = [reqs EXCEPT ![i] = [op |-> "delete_group", pc |-> "delete_one",
                                  caller |-> reqs[i].caller, gid |-> reqs[i].gid]]
  /\ resp' = [op |-> "delete_group", caller |-> reqs[i].caller, gid |-> reqs[i].gid,
              status |-> 0]
  /\ UNCHANGED <<users, tasks, groups, uuid, auth>>

\* PATCH bodies: each field left out, null, or a string.
GroupTaskPatches == [title : {Absent, "y"}, assigned_to : AssignInputs \cup {Absent}]


(***************************************************************************)
(* Personal tasks.                                                         *)
(***************************************************************************)
TaskIdInputs == {TaskIds[i] : i \in 1..MaxTasks}
\* PATCH bodies of update_task: each field left out or a string.
TaskPatches == [title : {Absent, "y"}, status : {Absent, "done"}]

\* Variant: the task looked up by id alone.
HasTask_AnyOwner(tid, uid) == \E t \in tasks : t.id = tid

\* db.tasks.find_one({"id": tid, "user_id": uid}) finds a document
HasTask(tid, uid) == \E t \in tasks : t.id = tid /\ t.user_id = uid
Task(tid) == CHOOSE t \in tasks : t.id = tid

GetTasks(caller) ==
  /\ Quiet
  /\ resp' = [op |-> "get_tasks", caller |-> caller, status |-> 200,
              body |-> {t \in tasks : t.user_id = caller}]
  /\ UNCHANGED <<users, tasks, groups, group_tasks, uuid, reqs, auth>>

CreateTask(caller, title) ==
  /\ Quiet
  /\ LET tid == TaskIds[uuid.task + 1] IN
       /\ tasks' = tasks \cup {[id |-> tid, title |-> title, status |-> "todo",
                                user_id |-> caller,
                                created_at |-> now, updated_at |-> now]}
       /\ uuid' = [uuid EXCEPT !.task = @ + 1]
       /\ resp' = [op |-> "create_task", caller |-> caller, id |-> tid, status |-> 200]
  /\ UNCHANGED <<users, groups, group_tasks, reqs, auth>>

UpdateTaskStatus(tid, caller) == IF ~HasTask(tid, caller) THEN 404 ELSE 200

UpdateTask(caller, tid, body) ==
  /\ Quiet
  /\ LET st == UpdateTaskStatus(tid, caller) IN
       /\ tasks' = IF st = 200
                   THEN SetDoc(tasks, tid,
                               Set(Task(tid), TaskUpdateData(ParseUpdate(TaskUpdateFields, body))))
                   ELSE tasks
       /\ resp' = IF st = 200
                  THEN [op |-> "update_task", caller |-> caller, id |-> tid,
                        body |-> body, status |-> st]
                  ELSE [op |-> "update_task", caller |-> caller, id |-> tid, status |-> st]
  /\ UNCHANGED <<users, groups, group_tasks, uuid, reqs, auth>>

\* db.tasks.delete_one({"id": tid, "user_id": uid})
DeleteOneTask(coll, tid, uid) == {t \in coll : ~(t.id = tid /\ t.user_id = uid)}

DeleteTask(caller, tid) ==
  /\ Quiet
  /\ tasks' = DeleteOneTask(tasks, tid, caller)
  /\ resp' = [op |-> "delete_task", caller |-> caller, id |-> tid,
              status |-> IF tasks' = tasks THEN 404 ELSE 200]
  /\ UNCHANGED <<users, groups, group_tasks, uuid, reqs, auth>>

(***************************************************************************)
(* Registration and identity-provider login.  Each handler awaits its      *)
(* lookup and its write separately, and requests are served concurrently:  *)
(* a request holds a slot of reqs from its lookup to its write.            *)
(***************************************************************************)
RegisterEmails == {"a@x", "A@x", "b@x"}
GoogleEmails == {"A@x", "b@x"}
Pictures == {None, "p1"}
\* What the provider's tokeninfo endpoint makes of the id_token.
TokenInfo == {"ok", "rejected", "unreachable"}

\* Requests that have looked up and will insert a user.
Inserting == {i \in DOMAIN reqs : reqs[i].op # "idle" /\ reqs[i].pc = "insert"}

\* register up to the await of insert_one: the lookup by lower-cased e-mail.
RegisterLookup(i, email, name) ==
  /\ reqs[i] = Idle
  /\ IF UsersByEmail(Lower(email)) # {}
     THEN /\ resp' = [op |-> "register", email |-> email, status |-> 400]
          /\ UNCHANGED reqs
     ELSE /\ reqs' = [reqs EXCEPT ![i] = [op |-> "register", pc |-> "insert",
                                          email |-> Lower(email), name |-> name,
                                          password_hash |-> "h", picture |-> None]]
          /\ resp' = [op |-> "register", email |-> email, status |-> 0]
  /\ UNCHANGED <<users, tasks, groups, group_tasks, uuid, auth>>

\* db.users.insert_one(user), of register and of google_auth.
InsertUser(i) ==
  /\ reqs[i].op \in {"register", "google_auth"}
  /\ reqs[i].pc = "insert"
  /\ users' = users \cup {[id |-> UserIds[uuid.user + 1], email |-> reqs[i].email,
                           name |-> reqs[i].name,
                           password_hash |-> reqs[i].password_hash,
                           picture |-> reqs[i].picture]}
  /\ uuid' = [uuid EXCEPT !.user = @ + 1]
  /\ reqs' = [reqs EXCEPT ![i] = Idle]
  /\ resp' = [op |-> reqs[i].op, email |-> reqs[i].email, status |-> 200]
  /\ UNCHANGED <<tasks, groups, group_tasks, auth>>

\* google_auth up to its first write: the token check and the lookup.
GoogleLookup(i, info, email, name, picture) ==
  /\ reqs[i] = Idle
  /\ IF info # "ok"
     THEN /\ resp' = [op |-> "google_auth", email |-> email,
                      status |-> IF info = "rejected" THEN 401 ELSE 500]
          /\ UNCHANGED reqs
     ELSE IF UsersByEmail(Lower(email)) # {}
     THEN LET user == FindUserByEmail(Lower(email)) IN
            IF Truthy(picture) /\ picture # user.picture
            THEN /\ reqs' = [reqs EXCEPT ![i] = [op |-> "google_auth", pc |-> "update_picture",
                                                 id |-> user.id, email |-> user.email,
                                                 picture |-> picture]]
                 /\ resp' = [op |-> "google_auth", email |-> email, status |-> 0]
            ELSE /\ resp' = [op |-> "google_auth", email |-> email, status |-> 200]
                 /\ UNCHANGED reqs
     ELSE /\ reqs' = [reqs EXCEPT ![i] = [op |-> "google_auth", pc |-> "insert",
                                          email |-> Lower(email), name |-> name,
                                          password_hash |-> None, picture |-> picture]]
          /\ resp' = [op |-> "google_auth", email |-> email, status |-> 0]
  /\ UNCHANGED <<users, tasks, groups, group_tasks, uuid, auth>>

\* db.users.update_one({"id": user["id"]}, {"$set": {"picture": picture}})
GoogleUpdatePicture(i) ==
  /\ reqs[i].op = "google_auth"
  /\ reqs[i].pc = "update_picture"
  /\ users' = {IF u.id = reqs[i].id THEN [u EXCEPT !.picture = reqs[i].picture] ELSE u :
                 u \in users}
  /\ reqs' = [reqs EXCEPT ![i] = Idle]
  /\ resp' = [op |-> "google_auth", email |-> reqs[i].email, status |-> 200]
  /\ UNCHANGED <<tasks, groups, group_tasks, uuid, auth>>

(***************************************************************************)
(* Tokens.  A token is the record of its claims and of the secret that     *)
(* signed it; jwt.decode accepts it under a key when that key signed it    *)
(* and it has not expired.  Time is counted in ticks: an access token      *)
(* lives AccessTTL ticks, a refresh token RefreshTTL.                      *)
(***************************************************************************)
\* JWT_SECRET and JWT_REFRESH_SECRET: the defaults, which differ.
DefaultSecret == "s1"
DefaultRefreshSecret == "s2"
\* ACCESS_TOKEN_EXPIRE_MINUTES and REFRESH_TOKEN_EXPIRE_DAYS, in ticks.
AccessTTL == 1
RefreshTTL == 2

\* jwt.encode(to_encode, key, algorithm=ALGORITHM)
Encode(sub, exp, type, key) == [sub |-> sub, exp |-> exp, type |-> type, key |-> key]

CreateAccessToken(sub) == Encode(sub, now + AccessTTL, "access", SECRET_KEY)
CreateRefreshToken(sub) == Encode(sub, now + RefreshTTL, "refresh", REFRESH_SECRET)

\* jwt.decode(token, key, algorithms=[ALGORITHM]) returns the payload: the
\* signature is the key's and the exp claim is not in the past.
Decodes(token, key) == token.key = key /\ ~(token.exp < now)

\* A request without an Authorization header (HTTPBearer(auto_error=False)).
NoCredentials == Encode(None, 0, "none", "none")

\* Tokens made outside the server, signed with a key that is not its own.
Forged == { Encode("u1", MaxTime + RefreshTTL, type, "forged") : type \in {"access", "refresh"} }

\* What a client can present: nothing, a token it was handed, a forged one.
Presented == {NoCredentials} \cup issued \cup Forged

HasUser(uid) == \E u \in users : u.id = uid

\* Variant: the type claim of the token is not looked at.
GetCurrentUserStatus_AnyType(credentials) ==
  IF credentials = NoCredentials THEN 401
  ELSE IF ~Decodes(credentials, SECRET_KEY) THEN 401
  ELSE IF credentials.sub = None THEN 401
  ELSE IF ~HasUser(credentials.sub) THEN 401
  ELSE 200

\* get_current_user: the guard of every route that needs an access token.
GetCurrentUserStatus(credentials) ==
  IF credentials = NoCredentials THEN 401
  ELSE IF ~Decodes(credentials, SECRET_KEY) THEN 401
  ELSE IF credentials.sub = None \/ credentials.type # "access" THEN 401
  ELSE IF ~HasUser(credentials.sub) THEN 401
  ELSE 200

\* get_me: the user get_current_user resolves the bearer token to.
GetMe(credentials) ==
  /\ Quiet
  /\ LET st == GetCurrentUserStatus(credentials) IN
       resp' = [op |-> "get_me", token |-> credentials, status |-> st,
                user |-> IF st = 200 THEN User(credentials.sub).id ELSE None]
  /\ UNCHANGED <<users, tasks, groups, group_tasks, uuid, reqs, auth>>

RefreshTokenStatus(token) ==
  IF ~Decodes(token, REFRESH_SECRET) THEN 401
  ELSE IF token.sub = None \/ token.type # "refresh" THEN 401
  ELSE IF ~HasUser(token.sub) THEN 401
  ELSE 200

\* refresh_token: a new pair of tokens for the subject of a refresh token.
RefreshToken(token) ==
  /\ Quiet
  /\ LET st == RefreshTokenStatus(token) IN
       IF st # 200
       THEN /\ resp' = [op |-> "refresh_token", token |-> token, status |-> st]
            /\ UNCHANGED issued
       ELSE /\ issued' = issued \cup {CreateAccessToken(token.sub), CreateRefreshToken(token.sub)}
            /\ resp' = [op |-> "refresh_token", token |-> token, status |-> st,
                        access_token |-> CreateAccessToken(token.sub),
                        refresh_token |-> CreateRefreshToken(token.sub)]
  /\ UNCHANGED <<users, tasks, groups, group_tasks, uuid, reqs, SECRET_KEY, REFRESH_SECRET, now>>

Passwords == {"pw", "bad"}
\* get_password_hash / verify_password: "h" is the hash of "pw".
GetPasswordHash(password) == IF password = "pw" THEN "h" ELSE "h2"
VerifyPassword(plain_password, hashed_password) == GetPasswordHash(plain_password) = hashed_password

LoginStatus(email, password) ==
  IF UsersByEmail(Lower(email)) = {} THEN 401
  ELSE IF FindUserByEmail(Lower(email)).password_hash = None THEN 401
  ELSE IF ~VerifyPassword(password, FindUserByEmail(Lower(email)).password_hash) THEN 401
  ELSE 200

\* login: a pair of tokens for the user the credentials identify.
Login(email, password) ==
  /\ Quiet
  /\ LET st == LoginStatus(email, password) IN
       IF st # 200
       THEN /\ resp' = [op |-> "login", email |-> email, status |-> st]
            /\ UNCHANGED issued
       ELSE LET user == FindUserByEmail(Lower(email)) IN
            /\ issued' = issued \cup {CreateAccessToken(user.id), CreateRefreshToken(user.id)}
            /\ resp' = [op |-> "login", email |-> email, status |-> st,
                        user |-> user.id,
                        access_token |-> CreateAccessToken(user.id),
                        refresh_token |-> CreateRefreshToken(user.id)]
  /\ UNCHANGED <<users, tasks, groups, group_tasks, uuid, reqs, SECRET_KEY, REFRESH_SECRET, now>>

NoResponse == [op |-> "none", caller |-> None, status |-> 0]

\* Time passes between two requests.
Tick ==
  /\ Quiet
  /\ now' = now + 1
  /\ resp' = NoResponse
  /\ UNCHANGED <<users, tasks, groups, group_tasks, uuid, reqs, SECRET_KEY, REFRESH_SECRET, issued>>

\* The server started with the default secrets; no token handed out yet.
InitTokens ==
  /\ SECRET_KEY = DefaultSecret
  /\ REFRESH_SECRET = DefaultRefreshSecret
  /\ issued = {}
  /\ now = 0

InitGroups ==
  /\ users = RegisteredUsers
  /\ tasks = {}
  /\ groups = {}
  /\ group_tasks = {}
  /\ uuid = [user |-> Cardinality(RegisteredUsers), task |-> 0, group |-> 0, group_task |-> 0]
  /\ reqs = NoRequest
  /\ resp = NoResponse
  /\ InitTokens

(***************************************************************************)
(* SpecGroups: the group and membership handlers, one request at a time,   *)
(* with every role the invite schema accepts.                              *)
(***************************************************************************)
NextGroups ==
  \/ \E c \in Callers, n \in GroupNames : uuid.group < MaxGroups /\ CreateGroup(c, n)
  \/ \E c \in Callers, g \in GroupIdInputs : GetGroup(c, g)
  \/ \E c \in Callers, g \in GroupIdInputs, n \in GroupNames \cup {None} : UpdateGroup(c, g, n)
  \/ \E c \in Callers, g \in GroupIdInputs : DeleteGroupTasksStep(c, g)
  \/ \E i \in DOMAIN reqs : DeleteGroupRecordStep(i)
  \/ \E c \in Callers, g \in GroupIdInputs, e \in InviteEmails, r \in InviteRoles :
       InviteMember(c, g, e, r)
  \/ \E c \in Callers, g \in GroupIdInputs, m \in Callers : RemoveMember(c, g, m)

SpecGroups == InitGroups /\ [][NextGroups]_vars

(***************************************************************************)
(* SpecGroupTasks: the group-task handlers together with the group         *)
(* handlers that decide who may call them, one request at a time.  Groups  *)
(* get one name; two users are registered, so that "u3" is an identifier   *)
(* of no member; roles, assignees and patches are drawn in full.           *)
(***************************************************************************)
TaskUsers == {u \in RegisteredUsers : u.id \in {"u1", "u2"}}

InitGroupTasks ==
  /\ users = TaskUsers
  /\ tasks = {}
  /\ groups = {}
  /\ group_tasks = {}
  /\ uuid = [user |-> Cardinality(TaskUsers), task |-> 0, group |-> 0, group_task |-> 0]
  /\ reqs = NoRequest
  /\ resp = NoResponse
  /\ InitTokens

NextGroupTasks ==
  \/ \E c \in Callers : uuid.group < MaxGroups /\ CreateGroup(c, "n1")
  \/ \E c \in Callers, g \in GroupIdInputs : GetGroup(c, g)
  \/ \E c \in Callers, g \in GroupIdInputs : UpdateGroup(c, g, None)
  \/ \E c \in Callers, g \in GroupIdInputs : DeleteGroupTasksStep(c, g)
  \/ \E i \in DOMAIN reqs : DeleteGroupRecordStep(i)
  \/ \E c \in Callers, g \in GroupIdInputs, e \in InviteEmails, r \in InviteRoles :
       InviteMember(c, g, e, r)
  \/ \E c \in Callers, g \in GroupIdInputs, m \in Callers : RemoveMember(c, g, m)
  \/ \E c \in Callers, g \in GroupIdInputs : GetGroupTasks(c, g)
  \/ \E c \in Callers, g \in GroupIdInputs, a \in AssignInputs :
       uuid.group_task < MaxGroupTasks /\ CreateGroupTask(c, g, "x", a)
  \/ \E c \in Callers, g \in GroupIdInputs, t \in GroupTaskIdInputs, u \in GroupTaskPatches :
       UpdateGroupTask(c, g, t, u)
  \/ \E c \in Callers, g \in GroupIdInputs, t \in GroupTaskIdInputs : DeleteGroupTask(c, g, t)

SpecGroupTasks == InitGroupTasks /\ [][NextGroupTasks]_vars

(***************************************************************************)
(* SpecCascade: delete_group among the handlers that fill a group with     *)
(* members and tasks, one request at a time.  Of three registered users    *)
(* one can be invited, as admin or member; tasks are created unassigned.   *)
(***************************************************************************)
NextCascade ==
  \/ \E c \in Callers : uuid.group < MaxGroups /\ CreateGroup(c, "n1")
  \/ \E c \in Callers, g \in GroupIdInputs, e \in {"b@x"}, r \in {"admin", "member"} :
       InviteMember(c, g, e, r)
  \/ \E c \in Callers, g \in GroupIdInputs, a \in {None} :
       uuid.group_task < MaxCascadeTasks /\ CreateGroupTask(c, g, "x", a)
  \/ \E c \in Callers, g \in GroupIdInputs : GetGroupTasks(c, g)
  \/ \E c \in Callers, g \in GroupIdInputs : DeleteGroupTasksStep(c, g)
  \/ \E i \in DOMAIN reqs : DeleteGroupRecordStep(i)

SpecCascade == InitGroups /\ [][NextCascade]_vars

(***************************************************************************)
(* SpecTasks: the personal-task handlers, one request at a time.           *)
(***************************************************************************)
NextTasks ==
  \/ \E c \in Callers : GetTasks(c)
  \/ \E c \in Callers, t \in Titles : uuid.task < MaxTasks /\ CreateTask(c, t)
  \/ \E c \in Callers, t \in TaskIdInputs, b \in TaskPatches : UpdateTask(c, t, b)
  \/ \E c \in Callers, t \in TaskIdInputs : DeleteTask(c, t)

SpecTasks == InitGroupTasks /\ [][NextTasks]_vars

(***************************************************************************)
(* SpecAuth: register and google_auth requests served concurrently, from   *)
(* an empty users collection.                                              *)
(***************************************************************************)
InitAuth ==
  /\ users = {}
  /\ tasks = {}
  /\ groups = {}
  /\ group_tasks = {}
  /\ uuid = [user |-> 0, task |-> 0, group |-> 0, group_task |-> 0]
  /\ reqs = NoRequest
  /\ resp = NoResponse
  /\ InitTokens

\* The bound on the users made, those stored and those about to be: a
\* request that would add one more is not started.
RoomForUser(email) ==
  \/ uuid.user + Cardinality(Inserting) < MaxUsers
  \/ UsersByEmail(Lower(email)) # {}

NextAuth ==
  \/ \E i \in DOMAIN reqs, e \in RegisterEmails :
       RoomForUser(e) /\ RegisterLookup(i, e, "Ann")
  \/ \E i \in DOMAIN reqs, f \in TokenInfo, e \in GoogleEmails, p \in Pictures :
       RoomForUser(e) /\ GoogleLookup(i, f, e, "Gee", p)
  \/ \E i \in DOMAIN reqs : InsertUser(i)
  \/ \E i \in DOMAIN reqs : GoogleUpdatePicture(i)

SpecAuth == InitAuth /\ [][NextAuth]_vars

(***************************************************************************)
(* SpecTokens: login, refresh and the access guard, one request at a time, *)
(* while time passes.  The refresh secret of the deployment is the default *)
(* or, set through the environment, the same string as the access secret.  *)
(***************************************************************************)
InitSpecTokens ==
  /\ users = TaskUsers
  /\ tasks = {}
  /\ groups = {}
  /\ group_tasks = {}
  /\ uuid = [user |-> Cardinality(TaskUsers), task |-> 0, group |-> 0, group_task |-> 0]
  /\ reqs = NoRequest
  /\ resp = NoResponse
  /\ SECRET_KEY = DefaultSecret
  /\ REFRESH_SECRET \in {DefaultRefreshSecret, DefaultSecret}
  /\ issued = {}
  /\ now = 0

LoginEmails == {"a@x", "B@x", "z@x"}

NextTokens ==
  \/ \E e \in LoginEmails, p \in Passwords : Login(e, p) /\ Cardinality(issued') <= MaxTokens
  \/ \E t \in Presented : GetMe(t)
  \/ \E t \in Presented \ {NoCredentials} :
       RefreshToken(t) /\ Cardinality(issued') <= MaxTokens
  \/ now < MaxTime /\ Tick

SpecTokens == InitSpecTokens /\ [][NextTokens]_vars

(***************************************************************************)
(* SpecMerge: the three PATCH handlers, one request at a time, while time  *)
(* passes.  User u1 creates a task, a group and invites u2 as member; the  *)
(* bodies of the PATCH requests have each declared field left out, null or *)
(* set, and one body of each kind also carries fields the request model    *)
(* does not declare.                                                       *)
(***************************************************************************)
MergeTaskPatches ==
  [title : {Absent, None, "y"}, status : {Absent, "done"}, id : {Absent}, user_id : {Absent}]
    \cup {[title |-> None, status |-> "done", id |-> "t9", user_id |-> "u2"]}

MergeGroupTaskPatches ==
  [title : {Absent, "y"}, assigned_to : {Absent, None, "", "u2"},
   group_id : {Absent}, created_by : {Absent}]
    \cup {[title |-> Absent, assigned_to |-> "u2", group_id |-> "g9", created_by |-> "u2"]}

MergeTaskIdInputs == {TaskIds[i] : i \in 1..MaxMergeTasks}

NextMerge ==
  \/ now < MaxMergeTime /\ Tick
  \/ uuid.task < MaxMergeTasks /\ CreateTask("u1", "x")
  \/ \E c \in Callers, t \in MergeTaskIdInputs, b \in MergeTaskPatches : UpdateTask(c, t, b)
  \/ uuid.group < MaxGroups /\ CreateGroup("u1", "n1")
  \/ \E g \in GroupIdInputs : InviteMember("u1", g, "b@x", "member")
  \/ \E c \in Callers, g \in GroupIdInputs, n \in {None, "n2"} : UpdateGroup(c, g, n)
  \/ \E g \in GroupIdInputs :
       uuid.group_task < MaxGroupTasks /\ CreateGroupTask("u1", g, "x", "u1")
  \/ \E c \in Callers, g \in GroupIdInputs, t \in GroupTaskIdInputs,
        b \in MergeGroupTaskPatches : UpdateGroupTask(c, g, t, b)

SpecMerge == InitGroupTasks /\ [][NextMerge]_vars

(***************************************************************************)
(* SpecInvites: invite_member requests served concurrently on the groups   *)
(* two registered users create; "c@x" is the address of no user.           *)
(***************************************************************************)
NextInvites ==
  \/ \E c \in Callers : uuid.group < MaxGroups /\ CreateGroup(c, "n1")
  \/ \E i \in DOMAIN reqs, c \in Callers, g \in GroupIdInputs,
        e \in {"b@x", "B@x", "c@x"}, r \in {"admin", "member"} :
       InviteFindGroup(i, c, g, e, r)
  \/ \E i \in DOMAIN reqs : InviteFindUser(i)
  \/ \E i \in DOMAIN reqs : InvitePush(i)

SpecInvites == InitGroupTasks /\ [][NextInvites]_vars

(***************************************************************************)
(* SpecOrphans: create_group_task, update_group_task and delete_group      *)
(* requests served concurrently, on the group a user creates and owns.     *)
(***************************************************************************)
NextOrphans ==
  \/ \E c \in Callers : uuid.group < MaxGroups /\ CreateGroup(c, "n1")
  \/ \E i \in DOMAIN reqs, c \in Callers, g \in GroupIdInputs :
       uuid.group_task < MaxGroupTasks /\ CreateGroupTaskFind(i, c, g, "x", None)
  \/ \E i \in DOMAIN reqs : CreateGroupTaskInsert(i)
  \/ \E i \in DOMAIN reqs, c \in Callers, g \in GroupIdInputs, t \in GroupTaskIdInputs :
       UpdateGroupTaskFindGroup(i, c, g, t, [title |-> "y", assigned_to |-> Absent])
  \/ \E i \in DOMAIN reqs : UpdateGroupTaskFindTask(i)
  \/ \E i \in DOMAIN reqs : UpdateGroupTaskUpdateOne(i)
  \/ \E i \in DOMAIN reqs : UpdateGroupTaskRespond(i)
  \/ \E i \in DOMAIN reqs, c \in Callers, g \in GroupIdInputs : DeleteGroupFind(i, c, g)
  \/ \E i \in DOMAIN reqs : DeleteGroupDeleteMany(i)
  \/ \E i \in DOMAIN reqs : DeleteGroupRecordStep(i)

SpecOrphans == InitGroupTasks /\ [][NextOrphans]_vars

(***************************************************************************)
(* Properties of the group and membership handlers (SpecGroups).           *)
(***************************************************************************)
OwnerIdx(g) == {i \in DOMAIN g.members : g.members[i].role = "owner"}

\* C1: every stored group has exactly one membership whose role is "owner",
\* and that membership is the one of the user who created the group
\* (owner_id, set by create_group and written by no other handler).
C1_ExactlyOneOwner ==
  \A g \in groups :
    /\ Cardinality(OwnerIdx(g)) = 1
    /\ \A i \in OwnerIdx(g) : g.members[i].user_id = g.owner_id

\* The request recorded in resp' is a remove_member aimed at the owner of a
\* group that exists when the request is served.
RemovesOwner ==
  /\ resp'.op = "remove_member"
  /\ HasGroup(resp'.gid)
  /\ resp'.member_id = Group(resp'.gid).owner_id

\* C4, as stated: remove_member aimed at the group's owner answers 400 and
\* leaves the membership list unchanged, whoever calls, a user outside the
\* group included.
C4_OwnerRemovalAlways400 ==
  [][RemovesOwner => (resp'.status = 400 /\ groups' = groups)]_vars

\* C4, amended: remove_member aimed at the group's owner answers 400 to every
\* caller who is a member of the group, whatever the caller's role, and 403
\* to a caller who is not a member; the membership list is unchanged in both
\* cases.
C4_OwnerRemovalByMember400 ==
  [][RemovesOwner =>
       /\ groups' = groups
       /\ resp'.status = IF IsMember(Group(resp'.gid).members, resp'.caller)
                         THEN 400 ELSE 403]_vars

\* C4 witness: a member other than the owner asked to remove the owner and
\* was answered 400.
C4_Witness ==
  /\ resp.op = "remove_member"
  /\ resp.status = 400
  /\ HasGroup(resp.gid)
  /\ resp.member_id = Group(resp.gid).owner_id
  /\ resp.caller # resp.member_id
  /\ RoleOf(Group(resp.gid).members, resp.caller) = "member"

\* The membership list ms with the membership at index i taken out.
WithoutIdx(ms, i) == SubSeq(ms, 1, i - 1) \o SubSeq(ms, i + 1, Len(ms))

\* groups' is groups with exactly the membership of uid taken out of group gid.
RemovedExactly(gid, uid) ==
  LET g == Group(gid) IN
    \E i \in DOMAIN g.members :
      /\ g.members[i].user_id = uid
      /\ groups' = (groups \ {g}) \cup {[g EXCEPT !.members = WithoutIdx(g.members, i)]}

\* C5: remove_member by a member of the group, aimed at a membership whose
\* role is not owner: a caller removing themself succeeds whatever their
\* role, and exactly that membership goes; a caller removing someone else
\* succeeds (the same way) if and only if the caller's role is owner or
\* admin, and is otherwise answered 403 with the membership list unchanged.
C5_RemoveMemberPermission ==
  [][(/\ resp'.op = "remove_member"
      /\ HasGroup(resp'.gid)
      /\ IsMember(Group(resp'.gid).members, resp'.caller)
      /\ IsMember(Group(resp'.gid).members, resp'.member_id)
      /\ Member(Group(resp'.gid).members, resp'.member_id).role # "owner")
     =>
     LET ms == Group(resp'.gid).members
         allowed == \/ resp'.caller = resp'.member_id
                    \/ Member(ms, resp'.caller).role \in {"owner", "admin"}
     IN IF allowed
        THEN resp'.status = 200 /\ RemovedExactly(resp'.gid, resp'.member_id)
        ELSE resp'.status = 403 /\ groups' = groups]_vars

\* C5 witness: a viewer asked to remove another member who is not the owner,
\* and was refused.
C5_Witness ==
  /\ resp.op = "remove_member"
  /\ resp.status = 403
  /\ HasGroup(resp.gid)
  /\ resp.caller # resp.member_id
  /\ RoleOf(Group(resp.gid).members, resp.caller) = "viewer"
  /\ RoleOf(Group(resp.gid).members, resp.member_id) \in {"admin", "member", "viewer", "guest"}

\* C5 witness of the other case: a viewer removed themself.
C5_SelfRemoved ==
  /\ resp.op = "remove_member"
  /\ resp.status = 200
  /\ resp.caller = resp.member_id
  /\ HasGroup(resp.gid)
  /\ ~IsMember(Group(resp.gid).members, resp.caller)

(***************************************************************************)
(* Properties of the group-task handlers (SpecGroupTasks).                 *)
(***************************************************************************)
\* The role the caller of the request recorded in resp' has in the group the
\* request names, as the store holds it when the request is served (None
\* when the group does not exist or the caller is not a member).
CallerRole ==
  IF HasGroup(resp'.gid) THEN RoleOf(Group(resp'.gid).members, resp'.caller) ELSE None

\* C2: for a caller whose role in the group is "viewer", create_group_task
\* and update_group_task answer 403 and leave the stored group tasks
\* unchanged, and get_group_tasks succeeds; delete_group_task succeeds only
\* for a caller whose role is owner or admin, and answers 403 to a member or
\* a viewer, deleting nothing.
C2_ViewerReadOnly ==
  [][/\ (resp'.op \in {"create_group_task", "update_group_task"} /\ CallerRole = "viewer")
          => (resp'.status = 403 /\ group_tasks' = group_tasks)
     /\ (resp'.op = "get_group_tasks" /\ CallerRole = "viewer")
          => (resp'.status = 200 /\ resp'.body = GroupTasksOf(resp'.gid))
     /\ (resp'.op = "delete_group_task" /\ resp'.status = 200)
          => CallerRole \in {"owner", "admin"}
     /\ (resp'.op = "delete_group_task" /\ CallerRole \in {"member", "viewer"})
          => (resp'.status = 403 /\ group_tasks' = group_tasks)]_vars

\* C2 witness: a viewer's update of a task that is stored in the group was
\* answered 403.
C2_Witness ==
  /\ resp.op = "update_group_task"
  /\ resp.status = 403
  /\ HasGroup(resp.gid)
  /\ RoleOf(Group(resp.gid).members, resp.caller) = "viewer"
  /\ HasGroupTask(resp.id, resp.gid)

GroupEndpoints ==
  {"get_group", "update_group", "delete_group", "invite_member", "remove_member",
   "get_group_tasks", "create_group_task", "update_group_task", "delete_group_task"}

\* The request recorded in resp' names a group that exists when the request
\* is served, and its caller is not a member of it.
ByNonMember ==
  /\ resp'.op \in GroupEndpoints
  /\ HasGroup(resp'.gid)
  /\ ~IsMember(Group(resp'.gid).members, resp'.caller)

\* C3, as stated: every group and group-task endpoint answers a non-member
\* of an existing group with 404, as it answers for a group that does not
\* exist.
C3_NonMemberAlways404 ==
  [][/\ ByNonMember => resp'.status = 404
     /\ (resp'.op \in GroupEndpoints /\ ~HasGroup(resp'.gid)) => resp'.status = 404]_vars

\* C3, amended: get_group and the four group-task endpoints answer a
\* non-member of an existing group with 404, as every endpoint answers for a
\* group that does not exist; update_group, delete_group, invite_member and
\* remove_member answer the non-member with 403, which tells the group
\* exists.  No endpoint changes the store for a non-member.
C3_NonMember404Or403 ==
  [][/\ ByNonMember =>
          /\ resp'.status =
               IF resp'.op \in {"update_group", "delete_group", "invite_member", "remove_member"}
               THEN 403 ELSE 404
          /\ UNCHANGED <<groups, group_tasks>>
     /\ (resp'.op \in GroupEndpoints /\ ~HasGroup(resp'.gid)) => resp'.status = 404]_vars

\* C3 witness: a user who is not a member asked for the tasks of an existing
\* group, which holds a task, and was answered 404.
C3_Witness ==
  /\ resp.op = "get_group_tasks"
  /\ resp.status = 404
  /\ HasGroup(resp.gid)
  /\ ~IsMember(Group(resp.gid).members, resp.caller)
  /\ GroupTasksOf(resp.gid) # {}

\* The user_name of the first membership of uid in ms, None if there is none.
SnapshotName(ms, uid) ==
  IF \E i \in DOMAIN ms : ms[i].user_id = uid
  THEN ms[Min({i \in DOMAIN ms : ms[i].user_id = uid})].user_name
  ELSE None

\* C6: create_group_task by a member who is not a viewer succeeds and stores
\* one new task, whose assigned_to is the value given (None when absent) and
\* whose assigned_to_name is the user_name snapshot of the membership
\* assigned_to identifies, or None when it identifies no current member.
C6_CreateAssignee ==
  [][(resp'.op = "create_group_task" /\ CallerRole \notin {None, "viewer"}) =>
       /\ resp'.status = 200
       /\ \E t \in group_tasks' :
            /\ t.id = resp'.id
            /\ group_tasks' = group_tasks \cup {t}
            /\ t \notin group_tasks
            /\ t.group_id = resp'.gid
            /\ t.assigned_to = resp'.assigned_to
            /\ t.assigned_to_name =
                 SnapshotName(Group(resp'.gid).members, resp'.assigned_to)]_vars

\* C6 witness: a task created with a registered user who is not a member as
\* assignee, stored with no assignee name.
C6_Witness ==
  /\ resp.op = "create_group_task"
  /\ resp.status = 200
  /\ resp.assigned_to = "u2"
  /\ ~IsMember(Group(resp.gid).members, "u2")
  /\ \E t \in group_tasks :
       t.id = resp.id /\ t.assigned_to = "u2" /\ t.assigned_to_name = None

\* C6 witness of the other case: the assignee is a member other than the
\* caller, and the task carries that member's name.
C6_MemberAssigned ==
  /\ resp.op = "create_group_task"
  /\ resp.status = 200
  /\ resp.assigned_to = "u2"
  /\ resp.caller = "u1"
  /\ \E t \in group_tasks :
       t.id = resp.id /\ t.assigned_to = "u2" /\ t.assigned_to_name = "Bob"

\* C7: a successful update_group_task whose body includes assigned_to (a
\* string or null) leaves the task with assigned_to equal to the value given
\* and assigned_to_name recomputed from the current membership list: the
\* member's snapshot name, or None when the value is null or names no member.
C7_UpdateAssignee ==
  [][(/\ resp'.op = "update_group_task"
      /\ resp'.status = 200
      /\ resp'.body.assigned_to # Absent)
     =>
     \E t \in group_tasks' :
       /\ t.id = resp'.id
       /\ t.assigned_to = resp'.body.assigned_to
       /\ t.assigned_to_name =
            SnapshotName(Group(resp'.gid).members, resp'.body.assigned_to)]_vars

(***************************************************************************)
(* Properties of delete_group (SpecCascade).                               *)
(***************************************************************************)
\* No task of group gid is stored.
NoTasksOf(gid) == \A t \in group_tasks : t.group_id # gid

\* C8: delete_group by the owner removes the group's tasks, then the group
\* record: while the request waits to delete the record the tasks are
\* already gone and the record is still stored, and once the record is gone
\* no task with that group_id is stored; a caller other than the group's
\* owner_id is answered 403 and neither tasks nor group are deleted.
C8_DeleteGroupCascade ==
  /\ [](/\ \A gid \in GroupIdInputs : ~HasGroup(gid) => NoTasksOf(gid)
        /\ \A i \in DOMAIN reqs :
             reqs[i].op = "delete_group" => (HasGroup(reqs[i].gid) /\ NoTasksOf(reqs[i].gid)))
  /\ [][(resp'.op = "delete_group" /\ HasGroup(resp'.gid)) =>
          IF resp'.caller # Group(resp'.gid).owner_id
          THEN resp'.status = 403 /\ UNCHANGED <<groups, group_tasks>>
          ELSE \/ /\ resp'.status = 0
                  /\ groups' = groups
                  /\ group_tasks' = {t \in group_tasks : t.group_id # resp'.gid}
               \/ /\ resp'.status = 200
                  /\ groups' = groups \ {Group(resp'.gid)}
                  /\ group_tasks' = group_tasks]_vars

\* C8 witness: the owner's delete_group has ended, of a group in which at
\* least two tasks had been created; group and tasks are gone.
C8_Witness ==
  /\ resp.op = "delete_group"
  /\ resp.status = 200
  /\ ~HasGroup(resp.gid)
  /\ uuid.group_task >= 2
  /\ group_tasks = {}

(***************************************************************************)
(* Properties of register and google_auth (SpecAuth).                      *)
(***************************************************************************)
\* C9: no two stored users have the same lower-cased e-mail, under every
\* interleaving of register and google_auth requests.
C9_UniqueEmails ==
  \A u \in users : \A v \in users : Lower(u.email) = Lower(v.email) => u = v

\* C9, the part about one request: a register whose e-mail, ignoring letter
\* case, is stored when the request looks it up is answered 400 and inserts
\* nothing.
C9_DuplicateRefused ==
  [][(resp'.op = "register" /\ resp'.status # 200
        /\ \E u \in users : Lower(u.email) = Lower(resp'.email))
     => (resp'.status = 400 /\ users' = users /\ reqs' = reqs)]_vars

(***************************************************************************)
(* Properties of the personal-task handlers (SpecTasks).                   *)
(***************************************************************************)
\* C10: update_task and delete_task with an id that matches no task of the
\* caller (a task of another user, or none) answer 404 and leave every
\* stored task unchanged; a successful update changes, and a successful
\* delete removes, only the one task with that id, which is the caller's and
\* keeps its id and user_id; get_tasks returns only stored tasks whose
\* user_id is the caller's.
C10_TaskIsolation ==
  [][LET mine == {t \in tasks : t.id = resp'.id /\ t.user_id = resp'.caller} IN
       /\ (resp'.op \in {"update_task", "delete_task"} /\ mine = {})
            => (resp'.status = 404 /\ tasks' = tasks)
       /\ (resp'.op = "update_task" /\ mine # {})
            => /\ resp'.status = 200
               /\ \E t \in mine : \E n \in tasks' :
                    /\ tasks' = (tasks \ {t}) \cup {n}
                    /\ n.id = t.id
                    /\ n.user_id = t.user_id
       /\ (resp'.op = "delete_task" /\ mine # {})
            => /\ resp'.status = 200
               /\ \E t \in mine : tasks' = tasks \ {t} /\ Cardinality(mine) = 1
       /\ (resp'.op = "get_tasks")
            => /\ resp'.status = 200
               /\ \A t \in resp'.body : t \in tasks /\ t.user_id = resp'.caller
               /\ tasks' = tasks]_vars

\* C10 witness: a user asked to update a stored task of another user and was
\* answered 404.
C10_Witness ==
  /\ resp.op = "update_task"
  /\ resp.status = 404
  /\ \E t \in tasks : t.id = resp.id /\ t.user_id # resp.caller

(***************************************************************************)
(* Properties of the token handlers (SpecTokens).                          *)
(***************************************************************************)
\* C11: token kinds are not interchangeable.  An access token the server
\* has issued, presented as bearer credential before it expires, is accepted
\* by get_current_user and resolves to the user it was issued for, and login
\* and refresh answer with such a token; a refresh-typed token or an expired
\* token presented as bearer credential is answered 401; an access-typed
\* token presented to the refresh endpoint is answered 401; and no token is
\* accepted by both the access guard and the refresh endpoint.
C11_TokenKinds ==
  /\ [](\A t \in Presented :
          ~(GetCurrentUserStatus(t) = 200 /\ RefreshTokenStatus(t) = 200))
  /\ [][/\ (resp'.op = "get_me" /\ resp'.token \in issued
              /\ resp'.token.type = "access" /\ ~(resp'.token.exp < now))
            => (resp'.status = 200 /\ resp'.user = resp'.token.sub)
        /\ (resp'.op = "get_me" /\ (resp'.token.type = "refresh" \/ resp'.token.exp < now))
            => (resp'.status = 401 /\ resp'.user = None)
        /\ (resp'.op = "refresh_token" /\ resp'.token.type = "access")
            => (resp'.status = 401 /\ issued' = issued)
        /\ (resp'.op \in {"login", "refresh_token"} /\ resp'.status = 200)
            => /\ resp'.access_token.type = "access"
               /\ resp'.access_token.exp = now + AccessTTL
               /\ resp'.refresh_token.type = "refresh"
               /\ resp'.access_token \in issued'
               /\ resp'.refresh_token \in issued'
        /\ (resp'.op = "login" /\ resp'.status = 200)
            => resp'.access_token.sub = resp'.user]_vars

\* C11 witness: a refresh token the server issued, signed with the secret
\* that also signs access tokens and not expired, was presented as bearer
\* credential and answered 401.
C11_Witness ==
  /\ resp.op = "get_me"
  /\ resp.status = 401
  /\ resp.token \in issued
  /\ resp.token.type = "refresh"
  /\ resp.token.key = SECRET_KEY
  /\ ~(resp.token.exp < now)

\* C11 witness of the accepted case: an access token was accepted for the
\* user it was issued to, who is not the only user.
C11_Accepted ==
  /\ resp.op = "get_me"
  /\ resp.status = 200
  /\ resp.token \in issued
  /\ resp.user = "u2"

\* C11 witness of the expired case: an issued access token was refused
\* after its expiry.
C11_Expired ==
  /\ resp.op = "get_me"
  /\ resp.status = 401
  /\ resp.token \in issued
  /\ resp.token.type = "access"
  /\ resp.token.exp < now

(***************************************************************************)
(* The roles stored in membership lists (SpecGroups).                      *)
(***************************************************************************)
Roles == {"owner", "admin", "member", "viewer"}

\* C12: in every reachable state the role of every membership of every
\* group is one of owner, admin, member, viewer, whatever create_group and
\* invite_member requests the handlers have accepted.
C12_RolesInSchema ==
  \A g \in groups : \A i \in DOMAIN g.members : g.members[i].role \in Roles

(***************************************************************************)
(* Properties of the PATCH handlers (SpecMerge).                           *)
(***************************************************************************)
\* The declared fields the body b sets to a value other than null.
Patched(fields, b) == {f \in fields : b[f] \notin {Absent, None}}

\* coll' is coll with the one document old replaced by a document of the
\* same fields, whose field f holds val[f] for f in changed and what old
\* holds for every other f.
Merged(coll, collNext, old, changed, val) ==
  \E new \in collNext :
    /\ collNext = (coll \ {old}) \cup {new}
    /\ DOMAIN new = DOMAIN old
    /\ \A f \in DOMAIN old : new[f] = IF f \in changed THEN val[f] ELSE old[f]

\* C13: a successful update_task, update_group or update_group_task
\* overwrites exactly the fields that are non-null in the patch, plus
\* updated_at for tasks and assigned_to_name when assigned_to is patched,
\* and leaves every other field of that document (id, user_id, owner_id,
\* created_by, group_id, members, created_at among them) and every other
\* document unchanged.
C13_PartialUpdateMerge ==
  [][/\ (resp'.op = "update_task" /\ resp'.status = 200) =>
          LET b == resp'.body
              P == Patched({"title", "status"}, b)
          IN /\ Merged(tasks, tasks', Task(resp'.id), P \cup {"updated_at"},
                       [f \in P \cup {"updated_at"} |->
                          IF f = "updated_at" THEN now ELSE b[f]])
             /\ UNCHANGED <<users, groups, group_tasks>>
     /\ (resp'.op = "update_group" /\ resp'.status = 200) =>
          LET P == IF resp'.name = None THEN {} ELSE {"name"}
          IN /\ Merged(groups, groups', Group(resp'.gid), P, [f \in P |-> resp'.name])
             /\ UNCHANGED <<users, tasks, group_tasks>>
     /\ (resp'.op = "update_group_task" /\ resp'.status = 200) =>
          LET b == resp'.body
              P == Patched({"title", "assigned_to"}, b)
              C == P \cup {"updated_at"} \cup
                   (IF "assigned_to" \in P THEN {"assigned_to_name"} ELSE {})
          IN /\ Merged(group_tasks, group_tasks', GroupTask(resp'.id), C,
                       [f \in C |->
                          CASE f = "updated_at" -> now
                            [] f = "assigned_to_name" ->
                                 SnapshotName(Group(resp'.gid).members, b.assigned_to)
                            [] OTHER -> b[f]])
             /\ UNCHANGED <<users, tasks, groups>>]_vars

\* C13 witness: a group task created at one time has been updated at a
\* later time with a body that sets assigned_to and names another group_id
\* and creator; the task has the new assignee, its old title, group and
\* creator, and the two timestamps.
C13_Witness ==
  /\ resp.op = "update_group_task"
  /\ resp.status = 200
  /\ resp.body.assigned_to = "u2"
  /\ resp.body.title = Absent
  /\ resp.body.group_id = "g9"
  /\ \E t \in group_tasks :
       /\ t.id = resp.id
       /\ t.group_id = resp.gid
       /\ t.created_by = "u1"
       /\ t.assigned_to = "u2"
       /\ t.assigned_to_name = "Bob"
       /\ t.title = "x"
       /\ t.created_at = 0
       /\ t.updated_at = 1

\* C13 witness for a personal task: a body with a null title and a status.
C13_TaskPatched ==
  /\ resp.op = "update_task"
  /\ resp.status = 200
  /\ resp.body.title = None
  /\ resp.body.status = "done"
  /\ resp.body.id = "t9"
  /\ \E t \in tasks :
       t.id = resp.id /\ t.title = "x" /\ t.status = "done" /\ t.user_id = "u1"
         /\ t.created_at = 0 /\ t.updated_at = 1

\* C13 witness for a group: the name changed, members and owner kept.
C13_GroupPatched ==
  /\ resp.op = "update_group"
  /\ resp.status = 200
  /\ resp.name = "n2"
  /\ \E g \in groups :
       g.id = resp.gid /\ g.name = "n2" /\ g.owner_id = "u1" /\ Len(g.members) = 2

(***************************************************************************)
(* Properties of concurrent invite_member requests (SpecInvites).          *)
(***************************************************************************)
\* C14, as stated: in every reachable state each group's membership list
\* holds at most one membership per user id, interleaved invite_member
\* requests for the same invitee included.
C14_OneMembershipPerUser ==
  \A g \in groups : \A i \in DOMAIN g.members : \A j \in DOMAIN g.members :
    g.members[i].user_id = g.members[j].user_id => i = j

\* C14, amended: an invite_member whose read of the group holds a
\* membership of the invitee is answered 400 and appends nothing, and a
\* membership is appended only by a request whose read of the group held
\* none of the invitee, one membership at the end of the stored list; two
\* requests that both read the group before either appends can therefore
\* store two memberships of one user.
C14_RefusedWhenReadAsMember ==
  [][\A i \in DOMAIN reqs :
       /\ (/\ reqs[i].op = "invite_member"
           /\ reqs[i].pc = "find_user"
           /\ reqs'[i] # reqs[i]
           /\ \E u \in users :
                u.email = Lower(reqs[i].email) /\ IsMember(reqs[i].group.members, u.id))
          => (resp'.status = 400 /\ reqs'[i] = Idle /\ groups' = groups)
       /\ (reqs[i].op = "invite_member" /\ reqs'[i] # reqs[i] /\ groups' # groups)
          => /\ reqs[i].pc = "push"
             /\ ~IsMember(reqs[i].group.members, reqs[i].new_member.user_id)
             /\ resp'.status = 200
             /\ \E g \in groups :
                  /\ g.id = reqs[i].gid
                  /\ groups' = (groups \ {g}) \cup
                       {[g EXCEPT !.members = g.members \o <<reqs[i].new_member>>]}]_vars

\* C14 witness: an invite of a user who is a member of the group, sent while
\* another invite is being served, has been answered 400.
C14_Witness ==
  /\ resp.op = "invite_member"
  /\ resp.status = 400
  /\ HasGroup(resp.gid)
  /\ Len(Group(resp.gid).members) >= 2
  /\ \E i \in DOMAIN reqs : reqs[i] # Idle

(***************************************************************************)
(* Properties of concurrent group-task and delete_group requests           *)
(* (SpecOrphans).                                                          *)
(***************************************************************************)
\* The stored group tasks whose group_id identifies no stored group.
Orphans(gs, ts) == {t \in ts : \A g \in gs : g.id # t.group_id}

\* C15, as stated: in every state in which no request is in progress, every
\* stored group task's group_id identifies a stored group, for every
\* interleaving of create_group_task and update_group_task with
\* delete_group.
C15_NoOrphansWhenQuiet ==
  Quiet => Orphans(groups, group_tasks) = {}

\* C15, amended: update_group_task never stores a task that was not stored
\* nor changes the id or group_id of one; delete_many leaves no task of the
\* group; and a task becomes orphaned only by the insert of a
\* create_group_task that passed its membership check before the group
\* record was deleted, or by the delete_one of a delete_group after whose
\* delete_many a create_group_task inserted.  Such a task stays orphaned when
\* all requests have finished.
C15_OrphansOnlyByOverlap ==
  [][/\ (resp'.op = "update_group_task") =>
          /\ {t.id : t \in group_tasks'} = {t.id : t \in group_tasks}
          /\ \A t \in group_tasks : \E n \in group_tasks' :
               n.id = t.id /\ n.group_id = t.group_id
     /\ \A i \in DOMAIN reqs :
          (reqs[i].op = "delete_group" /\ reqs[i].pc = "delete_many" /\ reqs'[i] # reqs[i])
            => (NoTasksOf(reqs[i].gid))'
     /\ \A t \in {n \in Orphans(groups', group_tasks') :
                   \A o \in Orphans(groups, group_tasks) : o.id # n.id} :
          \/ /\ resp'.op = "create_group_task"
             /\ resp'.status = 200
             /\ resp'.id = t.id
             /\ t \notin group_tasks
             /\ groups' = groups
             /\ \E i \in DOMAIN reqs :
                  reqs[i].op = "create_group_task" /\ reqs[i].task = t /\ reqs'[i] = Idle
          \/ /\ resp'.op = "delete_group"
             /\ resp'.status = 200
             /\ resp'.gid = t.group_id
             /\ group_tasks' = group_tasks]_vars

\* C15 witness: no request is in progress, the group has been deleted, and
\* the task a create_group_task has just inserted is stored with the
\* group_id of the deleted group.
C15_Witness ==
  /\ Quiet
  /\ resp.op = "create_group_task"
  /\ resp.status = 200
  /\ ~HasGroup(resp.gid)
  /\ \E t \in group_tasks : t.id = resp.id /\ t.group_id = resp.gid

\* C15 witness of the other way: the delete_one of a delete_group has
\* orphaned a task inserted after its delete_many.
C15_OrphanedByDelete ==
  /\ Quiet
  /\ resp.op = "delete_group"
  /\ resp.status = 200
  /\ \E t \in group_tasks : t.group_id = resp.gid

====
